---- MODULE Spec2Model ----
(***************************************************************************)
(* A model of lil-city's simulation server bootstrap                       *)
(* (lib-internal/src/sulphate/server.rs): the in-game clock and its        *)
(* conversions, the interruption channel, the start_server handoff between *)
(* the calling thread and the runtime thread, and the termination watcher; *)
(* and of the client's movement input (src/client/user_input.rs).          *)
(***************************************************************************)
EXTENDS Integers, Sequences, FiniteSets, TLC

\* ------------------------------------------------------------------ bounds

\* Largest whole second of a wall instant the model draws.
MaxWallSec == 2
\* Interruptions the producers may send in all.
MaxSends == 3

\* ------------------------------------------------------- program constants

\* server.rs:48 and :55, the sub-second denominator 1_000_000_000.
NANOS_PER_SEC == 1000000000

\* Sub-second parts of the wall instants the model draws.
NanoSamples == {0, 1, NANOS_PER_SEC - 1}

\* ---------------------------------------------------------- Option values

None == <<>>
Some(x) == <<x>>

\* ------------------------------------------- std::time Instant and Duration

\* time::Duration::new(secs, nanos)
WallDuration(secs, nanos) == [secs |-> secs, nanos |-> nanos]

Instants == {[s |-> a, n |-> b] : a \in 0..MaxWallSec, b \in NanoSamples}

InstLE(a, b) == a.s < b.s \/ (a.s = b.s /\ a.n <= b.n)
InstLT(a, b) == InstLE(a, b) /\ a # b

\* Instant::duration_since(earlier), for earlier <= now
DurationSince(now, earlier) ==
    IF now.n >= earlier.n
    THEN WallDuration(now.s - earlier.s, now.n - earlier.n)
    ELSE WallDuration(now.s - earlier.s - 1, now.n + NANOS_PER_SEC - earlier.n)

\* ---------------------------------------------------------------- units

\* units::Duration, units::Time, units::Scalar: whole units and a fraction
\* kept as a numerator over NANOS_PER_SEC.
Units(whole, frac) == [s |-> whole, f |-> frac]

\* From<i32>
UnitsFromI32(k) == Units(k, 0)

\* Add
UnitsAdd(a, b) ==
    IF a.f + b.f >= NANOS_PER_SEC
    THEN Units(a.s + b.s + 1, a.f + b.f - NANOS_PER_SEC)
    ELSE Units(a.s + b.s, a.f + b.f)

\* Sub; a negative value keeps a fraction in 0..NANOS_PER_SEC-1 under a
\* whole part one lower.
UnitsSub(a, b) ==
    IF a.f >= b.f
    THEN Units(a.s - b.s, a.f - b.f)
    ELSE Units(a.s - b.s - 1, a.f + NANOS_PER_SEC - b.f)

\* PartialOrd
UnitsLE(a, b) == a.s < b.s \/ (a.s = b.s /\ a.f <= b.f)

\* Div by the integer 1_000_000_000
UnitsDivBillion(a) == Units(a.s \div NANOS_PER_SEC, a.s % NANOS_PER_SEC)

\* Default::default() of units::Time
initial_time == Units(0, 0)

\* ------------------------------------------------------ duration_in_game

duration_in_game(duration) ==
    LET seconds    == duration.secs
        nanos      == duration.nanos
        time_s     == UnitsFromI32(seconds)
        time_n_num == UnitsFromI32(nanos)
        time_n     == UnitsDivBillion(time_n_num)
    IN  UnitsAdd(time_s, time_n)

\* ----------------------------------------------------- duration_real_time

\* The rounding of Into<i32> for a negative units value with a fraction:
\* "floor" or "trunc". The units crate fixes it; the model draws it.
VARIABLE intoMode

\* Into<i32>: the whole part.
UnitsIntoI32(a) ==
    IF intoMode = "trunc" /\ a.s < 0 /\ a.f > 0 THEN a.s + 1 ELSE a.s

\* Mul by the integer 1_000_000_000
UnitsMulBillion(a) == Units(a.s * NANOS_PER_SEC + a.f, 0)

\* The panic of time::Duration::new when the carried seconds pass u64.
DurationOverflow == [panic |-> "overflow in Duration::new"]

\* time::Duration::new(time_s as u64, time_n as u32) for i32 time_s and
\* time_n. A negative i32 cast to an unsigned type wraps round:
\* time_n as u32 is 2^32 + time_n = 4 * 10^9 + 294967296 + time_n, and
\* time_s as u64 is 2^64 + time_s. new carries nanos / 10^9 into the seconds
\* with a checked add. Seconds of 2^64 + k, k < 0, are kept as
\* [secs |-> k, wraps |-> 1]; `as_secs() as i32` of them is k again.
DurationNewOfI32(time_s, time_n) ==
    LET part  == IF time_n < 0 THEN 294967296 + time_n ELSE time_n
        carry == (IF time_n < 0 THEN 4 ELSE 0) + (part \div NANOS_PER_SEC)
        nanos == part % NANOS_PER_SEC
    IN  IF time_s >= 0 THEN WallDuration(time_s + carry, nanos)
        ELSE IF time_s + carry >= 0 THEN DurationOverflow
        ELSE [secs |-> time_s + carry, nanos |-> nanos, wraps |-> 1]

duration_real_time_NoFraction(duration) ==
    DurationNewOfI32(UnitsIntoI32(duration), 0)

duration_real_time(duration) ==
    LET time_s    == UnitsIntoI32(duration)
        time_frac == UnitsSub(duration, UnitsFromI32(time_s))
        time_n    == UnitsIntoI32(UnitsMulBillion(time_frac))
    IN  DurationNewOfI32(time_s, time_n)

\* ---------------------------------------------------------------- Simple

SimpleNew(start_time) == [start_instant |-> None, last_time |-> start_time]

elapsed_as_of(self, now) ==
    IF self.start_instant # None
    THEN DurationSince(now, self.start_instant[1])
    ELSE WallDuration(0, 0)

SimpleTime_IgnoresElapsed(self, now) == self.last_time

SimpleTime(self, now) ==
    UnitsAdd(self.last_time, duration_in_game(elapsed_as_of(self, now)))

SimpleStop_KeepsRunning(self, now) ==
    [self EXCEPT !.last_time = SimpleTime(self, now)]

SimpleStop(self, now) ==
    [start_instant |-> None, last_time |-> SimpleTime(self, now)]

SimpleStart_NoStop(self, now) == [self EXCEPT !.start_instant = Some(now)]

SimpleStart(self, now) ==
    [SimpleStop(self, now) EXCEPT !.start_instant = Some(now)]

\* The in-game times a clock under test is created at.
StartTimes == {initial_time, Units(1, NANOS_PER_SEC - 1)}

\* The wall durations, in-game durations and in-game times drawn as inputs.
WallDurations ==
    {WallDuration(a, b) : a \in 0..MaxWallSec, b \in NanoSamples}

GameDurations ==
    {Units(a, b) : a \in (0 - MaxWallSec)..MaxWallSec, b \in NanoSamples}

GameTimes == {Units(a, b) : a \in 0..MaxWallSec, b \in NanoSamples}

\* ------------------------------------------------------------------ Clock

\* impl server::Clock<units::Time> for Clock. Each method takes &mut self:
\* an operator gives the clock the call leaves and the value it returns.
ClockInGame_Restarts(self, now) ==
    [self |-> SimpleStart(self, now), out |-> SimpleTime(self, now)]

ClockInGame(self, now) == [self |-> self, out |-> SimpleTime(self, now)]

ClockMinimumWait(self, now, until) ==
    [self |-> self, out |-> duration_real_time(UnitsSub(until, now))]

ClockFinishedCycle(self, now, in_game) == [self |-> self, out |-> None]

ClockEndCycles(self) == [self |-> self, out |-> None]

\* ------------------------------------------------------------ Interruption

\* Entity identifiers a builder may insert and return.
EntityIds == {"e1", "e2"}
\* player::Control values.
Controls == {"c1", "c2"}
\* Threads that hold or may be handed a clone of the interruption sender;
\* "p1" is the thread that calls start_server.
Producers == {"p1", "p2"}

PlayerUpdate(id, control, from, seq) ==
    [kind |-> "PlayerUpdate", id |-> id, control |-> control,
     from |-> from, seq |-> seq]

KillServer(from, seq) == [kind |-> "KillServer", from |-> from, seq |-> seq]

\* player::Control::apply(space, time, matter, id, control): the named
\* entity takes the control.
ControlApply(world, id, control) ==
    [world EXCEPT !.matter = [e \in DOMAIN world.matter |->
        IF e = id THEN control ELSE world.matter[e]]]

InterruptionUpdate_KillIgnored(self, time, world) ==
    IF self.kind = "PlayerUpdate"
    THEN [stop |-> FALSE, time |-> time,
          world |-> ControlApply(world, self.id, self.control)]
    ELSE [stop |-> FALSE, time |-> time, world |-> world]

InterruptionUpdate_DropsControl(self, time, world) ==
    [stop |-> self.kind = "KillServer", time |-> time, world |-> world]

\* Interruption::update(self, time, world) -> bool, with the event queue
\* and the world it leaves.
InterruptionUpdate(self, time, world) ==
    IF self.kind = "PlayerUpdate"
    THEN [stop |-> FALSE, time |-> time,
          world |-> ControlApply(world, self.id, self.control)]
    ELSE [stop |-> TRUE, time |-> time, world |-> world]

\* ------------------------------------------------- client::user_input

\* enum Dir
DirSet == {"up", "down", "left", "right"}

\* DirPad<T>; self[dir] is ops::Index<Dir>.
DirPad(up, down, left, right) ==
    [up |-> up, down |-> down, left |-> left, right |-> right]

\* app::Button values: the four movement keys, a key and a mouse button
\* that are not mapped.
Buttons == {"Keyboard(W)", "Keyboard(S)", "Keyboard(A)", "Keyboard(D)",
            "Keyboard(Q)", "Mouse(Left)"}

\* app::ButtonState
ButtonStates == {"Press", "Release"}

\* app::ButtonArgs { button, state, .. }
ButtonArgs(button, state) == [button |-> button, state |-> state]

DirPadDir_DownIsUp(self, item) ==
    IF item = self.up \/ item = self.down THEN Some("up")
    ELSE IF item = self.left THEN Some("left")
    ELSE IF item = self.right THEN Some("right")
    ELSE None

\* DirPad::dir
DirPadDir(self, item) ==
    IF item = self.up THEN Some("up")
    ELSE IF item = self.down THEN Some("down")
    ELSE IF item = self.left THEN Some("left")
    ELSE IF item = self.right THEN Some("right")
    ELSE None

\* enum DeviceUpdate
Nop == [kind |-> "Nop"]
ChangeMovement(dirs) == [kind |-> "ChangeMovement", dirs |-> dirs]

\* Input::new
InputNew ==
    [move_controls |-> DirPad("Keyboard(W)", "Keyboard(S)", "Keyboard(A)",
                              "Keyboard(D)"),
     dirs          |-> DirPad(FALSE, FALSE, FALSE, FALSE)]

InputInterpret_NoShortCircuit(self, bin) ==
    LET butt_pressed == bin.state = "Press"
        found        == DirPadDir(self.move_controls, bin.button)
    IN  IF found # None
        THEN LET after == [self EXCEPT !.dirs[found[1]] = butt_pressed]
             IN  [self |-> after, out |-> ChangeMovement(after.dirs)]
        ELSE [self |-> self, out |-> Nop]

\* Input::interpret(&mut self, bin) -> DeviceUpdate, with the Input it
\* leaves.
InputInterpret(self, bin) ==
    LET butt_pressed == bin.state = "Press"
        found        == DirPadDir(self.move_controls, bin.button)
    IN  IF found # None
        THEN IF self.dirs[found[1]] # butt_pressed
             THEN LET after == [self EXCEPT !.dirs[found[1]] = butt_pressed]
                  IN  [self |-> after, out |-> ChangeMovement(after.dirs)]
             ELSE [self |-> self, out |-> Nop]
        ELSE [self |-> self, out |-> Nop]

\* ------------------------------------------------------------------ state

VARIABLES
    callerPc,        \* the calling thread's place in start_server
    srvPc,           \* the spawned thread's place in its closure
    panicking,       \* the spawned thread is unwinding from a panic
    watcher,         \* announce_shutdown: None, or Some(natural)
    reports,         \* what ServerWatcher::drop has printed
    handoff,         \* messages in flight on the (send, recv) channel
    handoffSender,   \* `send` is alive
    handoffReceiver, \* `recv` is alive
    updQueue,        \* interruptions in flight on the (upd, upd_recv) channel
    updReceiver,     \* `upd_recv` is alive
    senders,         \* the threads holding `upd` or a clone of it
    cloned,          \* the threads ever given a sender
    server,          \* None, or Some(Server) on the spawned thread
    locals,          \* None, or Some([clock, r]) kept by the closure to send
    returned,        \* None, or Some([clock, r]) start_server returned
    stop,            \* the run loop's should-stop flag of this cycle
    builder,         \* history: who ran the builder and what it gave
    accepted,        \* history: interruptions whose send returned Ok
    applied,         \* history: interruptions the runtime has updated with
    sentAtWake,      \* history: Len(accepted) when this cycle's wait returned
    lastSend,        \* history: each producer's last send and its outcome
    runReturned,     \* history: server.run() returned
    afterDrop,       \* history: event phases begun since the last sender went
    wall,            \* the wall clock
    simple,          \* a Simple clock driven directly
    frozen,          \* history: None, or Some([at, time]) of the last stop
    reading,         \* history: the last value read from `simple`
    call,            \* history: the last conversion or update called alone
    handleOut,       \* history: the last call on the returned clock handle
    created,         \* history: the in-game time `simple` was created at
    input,           \* the client's Input: the recorded dirs
    lastUpdate,      \* history: the last button event and what it returned
    pressed,         \* history: each button's latest event, None if none
    changes          \* history: the dirs of the last two ChangeMovement

threadVars == <<srvPc, panicking, watcher, reports, server, locals, stop,
                builder, applied, sentAtWake, runReturned,
                afterDrop>>
threadVars_NoPc == <<panicking, watcher, reports, server, locals, stop,
                    builder, applied, sentAtWake, runReturned,
                    afterDrop>>
channelVars == <<handoff, handoffSender, handoffReceiver, updQueue,
                 updReceiver, senders, cloned, accepted, lastSend>>
callerVars == <<callerPc, returned>>
callVars == <<call, intoMode>>
handleVars == <<handleOut>>
simpleVars == <<simple, frozen, reading, created>>
inputVars == <<input, lastUpdate, pressed, changes>>
serverVars == <<threadVars, channelVars, callerVars>>
clockVars == <<wall, simpleVars, callVars, handleVars, inputVars>>
vars == <<serverVars, clockVars>>

FirstInstant == [s |-> 0, n |-> 0]

ServerInit ==
    /\ callerPc = "start"
    /\ srvPc = "unspawned"
    /\ panicking = FALSE
    /\ watcher = None
    /\ reports = <<>>
    /\ handoff = <<>>
    /\ handoffSender = FALSE
    /\ handoffReceiver = FALSE
    /\ updQueue = <<>>
    /\ updReceiver = FALSE
    /\ senders = {}
    /\ cloned = {}
    /\ server = None
    /\ locals = None
    /\ returned = None
    /\ stop = FALSE
    /\ builder = [thread |-> "none", outcome |-> "none"]
    /\ accepted = <<>>
    /\ applied = <<>>
    /\ sentAtWake = 0
    /\ lastSend = [p \in Producers |-> None]
    /\ runReturned = FALSE
    /\ afterDrop = 0

NoCall == [fn |-> "none"]

\* What the model holds beside the server's own state before anything runs.
RestInit ==
    /\ frozen = None
    /\ reading = None
    /\ created = simple.last_time
    /\ call = NoCall
    /\ handleOut = NoCall
    /\ input = InputNew
    /\ lastUpdate = None
    /\ pressed = [b \in Buttons |-> None]
    /\ changes = <<>>

Init ==
    /\ ServerInit
    /\ wall = FirstInstant
    /\ simple = SimpleNew(initial_time)
    /\ RestInit
    /\ intoMode = "floor"

\* ------------------------------------------------- the calling thread

StartServerCall_BuildsFirst ==
    /\ callerPc = "start"
    /\ callerPc' = "recv"
    /\ srvPc' = "watch"
    /\ builder' = [thread |-> "caller", outcome |-> "e1"]
    /\ handoffSender' = TRUE
    /\ handoffReceiver' = TRUE
    /\ updReceiver' = TRUE
    /\ senders' = {"p1"}
    /\ cloned' = {"p1"}
    /\ UNCHANGED <<panicking, watcher, reports, server, locals, stop, applied,
                   sentAtWake, runReturned, afterDrop,
                   handoff, updQueue, accepted, lastSend, returned, clockVars>>

\* start_server, lines 224-236: both channels are made and the thread is
\* spawned; the caller keeps `upd` and `recv`.
StartServerCall ==
    /\ callerPc = "start"
    /\ callerPc' = "recv"
    /\ srvPc' = "watch"
    /\ handoffSender' = TRUE
    /\ handoffReceiver' = TRUE
    /\ updReceiver' = TRUE
    /\ senders' = {"p1"}
    /\ cloned' = {"p1"}
    /\ UNCHANGED <<panicking, watcher, reports, server, locals, stop, builder,
                   applied, sentAtWake, runReturned, afterDrop,
                   handoff, updQueue, accepted, lastSend, returned, clockVars>>

CallerRecv_ReturnsOnError ==
    /\ callerPc = "recv"
    /\ handoff # <<>> \/ ~handoffSender
    /\ callerPc' = "returned"
    /\ returned' = IF handoff # <<>> THEN Some(Head(handoff))
                   ELSE Some([clock |-> SimpleNew(initial_time), r |-> "e1"])
    /\ handoff' = IF handoff # <<>> THEN Tail(handoff) ELSE handoff
    /\ handoffReceiver' = FALSE
    /\ UNCHANGED <<threadVars, handoffSender, updQueue, updReceiver, senders,
                   cloned, accepted, lastSend, clockVars>>

CallerRecv_TryRecv ==
    /\ callerPc = "recv"
    /\ IF handoff # <<>>
       THEN /\ callerPc' = "returned"
            /\ returned' = Some(Head(handoff))
            /\ handoff' = Tail(handoff)
            /\ UNCHANGED senders
       ELSE /\ callerPc' = "panicked"
            /\ senders' = {}
            /\ UNCHANGED <<returned, handoff>>
    /\ handoffReceiver' = FALSE
    /\ UNCHANGED <<threadVars, handoffSender, updQueue, updReceiver, cloned,
                   accepted, lastSend, clockVars>>

\* start_server, lines 238-240: recv.recv().expect(..) blocks until a
\* message is there or the sender is gone; Err panics and unwinds the
\* caller's frame, Ok is returned with `upd`.
CallerRecv ==
    /\ callerPc = "recv"
    /\ handoff # <<>> \/ ~handoffSender
    /\ IF handoff # <<>>
       THEN /\ callerPc' = "returned"
            /\ returned' = Some(Head(handoff))
            /\ handoff' = Tail(handoff)
            /\ UNCHANGED senders
       ELSE /\ callerPc' = "panicked"
            /\ senders' = {}
            /\ UNCHANGED <<returned, handoff>>
    /\ handoffReceiver' = FALSE
    /\ UNCHANGED <<threadVars, handoffSender, updQueue, updReceiver, cloned,
                   accepted, lastSend, clockVars>>

\* ------------------------------------------------------- the producers

SentBy(p) == IF lastSend[p] = None THEN 0 ELSE lastSend[p][1].seq

TotalSent == SentBy("p1") + SentBy("p2")

\* The interruptions producer p may send next.
Sendable(p) ==
    IF returned = None THEN {}
    ELSE {KillServer(p, SentBy(p) + 1)} \cup
         {PlayerUpdate(returned[1].r, c, p, SentBy(p) + 1) : c \in Controls}

\* The spawned thread owns upd_recv: from the spawn, in the closure and
\* then in the Server, until the Server is dropped.
ThreadHoldsReceiver ==
    srvPc \in {"watch", "create", "send", "wait", "drain", "events", "ended",
               "drop_server"}

\* The spawned thread has ended, by return or by panic.
ThreadGone == srvPc = "exited"

\* mpsc::Sender::send on a handle of the channel of line 224: Ok puts the
\* value in the queue, Err gives it back once the receiver is gone.
Send(p, m) ==
    /\ callerPc = "returned"
    /\ p \in senders
    /\ TotalSent < MaxSends
    /\ IF updReceiver
       THEN /\ updQueue' = Append(updQueue, m)
            /\ accepted' = Append(accepted, m)
       ELSE UNCHANGED <<updQueue, accepted>>
    /\ lastSend' = [lastSend EXCEPT ![p] =
            Some([seq |-> m.seq, ok |-> updReceiver,
                  held |-> ThreadHoldsReceiver, gone |-> ThreadGone])]
    /\ UNCHANGED <<threadVars, handoff, handoffSender, handoffReceiver,
                   updReceiver, senders, cloned, callerVars, clockVars>>

\* mpsc::Sender::clone, handing the clone to another thread.
CloneSender(p, q) ==
    /\ callerPc = "returned"
    /\ p \in senders
    /\ q \notin cloned
    /\ senders' = senders \cup {q}
    /\ cloned' = cloned \cup {q}
    /\ UNCHANGED <<threadVars, handoff, handoffSender, handoffReceiver,
                   updQueue, updReceiver, accepted, lastSend, callerVars,
                   clockVars>>

\* Drop of a sender handle.
DropSender(p) ==
    /\ callerPc = "returned"
    /\ p \in senders
    /\ senders' = senders \ {p}
    /\ UNCHANGED <<threadVars, handoff, handoffSender, handoffReceiver,
                   updQueue, updReceiver, cloned, accepted, lastSend,
                   callerVars, clockVars>>

\* ------------------------------------------------- the spawned thread

\* What the caller's builder closure may do: insert one entity and return
\* its identifier, or panic.
BuilderOutcomes == EntityIds \cup {"panic"}

\* sulphate::EventQueue::new(initial_time)
EventQueueNew(t) == [now |-> t]

\* The world a builder that returned r leaves: the entity it inserted.
WorldOf(r) == [matter |-> (r :> "idle")]

ThreadWatcher_StartsNatural ==
    /\ srvPc = "watch"
    /\ watcher' = Some(TRUE)
    /\ srvPc' = "create"
    /\ UNCHANGED <<panicking, reports, server, locals, stop, builder, applied,
                   sentAtWake, runReturned, afterDrop,
                   channelVars, callerVars, clockVars>>

\* Line 228: the watcher is made with natural: false.
ThreadWatcher ==
    /\ srvPc = "watch"
    /\ watcher' = Some(FALSE)
    /\ srvPc' = "create"
    /\ UNCHANGED <<panicking, reports, server, locals, stop, builder, applied,
                   sentAtWake, runReturned, afterDrop,
                   channelVars, callerVars, clockVars>>

\* create_server_local(f, upd_recv), lines 168-194, called on line 231:
\* the clock is made and started, the builder f runs, and the Server is
\* made from the event queue, the world, the receiver and a clone of the
\* clock. A panic in f unwinds create_server_local, dropping upd_recv.
CreateServerLocal(outcome) ==
    LET clock == SimpleStart(SimpleNew(initial_time), wall)
    IN  /\ srvPc = "create"
        /\ builder' = [thread |-> "server", outcome |-> outcome]
        /\ IF outcome = "panic"
           THEN /\ panicking' = TRUE
                /\ updReceiver' = FALSE
                /\ srvPc' = "drop_watcher"
                /\ UNCHANGED <<server, locals>>
           ELSE /\ server' = Some([time  |-> EventQueueNew(initial_time),
                                   world |-> WorldOf(outcome),
                                   clock |-> clock])
                /\ locals' = Some([clock |-> clock, r |-> outcome])
                /\ srvPc' = "send"
                /\ UNCHANGED <<panicking, updReceiver>>
        /\ UNCHANGED <<watcher, reports, stop, applied, sentAtWake,
                       runReturned, afterDrop, handoff, handoffSender,
                       handoffReceiver, updQueue, senders, cloned, accepted,
                       lastSend, callerVars, clockVars>>

ThreadCreate == \E outcome \in BuilderOutcomes : CreateServerLocal(outcome)

ThreadSend_SendsDefault ==
    /\ srvPc = "send"
    /\ handoff' = Append(handoff, [locals[1] EXCEPT !.r = "e1"])
    /\ srvPc' = "wait"
    /\ locals' = None
    /\ UNCHANGED <<panicking, watcher, reports, server, stop, builder,
                   applied, sentAtWake, runReturned, afterDrop, handoffSender,
                   handoffReceiver, updQueue, updReceiver, senders, cloned,
                   accepted, lastSend, callerVars, clockVars>>

\* Line 232: send.send((clock, r)).expect(..): Err, when recv is gone,
\* panics.
ThreadSend ==
    /\ srvPc = "send"
    /\ IF handoffReceiver
       THEN /\ handoff' = Append(handoff, locals[1])
            /\ srvPc' = "wait"
            /\ UNCHANGED panicking
       ELSE /\ panicking' = TRUE
            /\ srvPc' = "drop_server"
            /\ UNCHANGED handoff
    /\ locals' = None
    /\ UNCHANGED <<watcher, reports, server, stop, builder, applied,
                   sentAtWake, runReturned, afterDrop, handoffSender,
                   handoffReceiver, updQueue, updReceiver, senders, cloned,
                   accepted, lastSend, callerVars, clockVars>>

\* ------------------------------------------------------ Server::run

\* One interruption taken from the channel and updated with.
Updated(m) ==
    LET res == InterruptionUpdate(m, server[1].time, server[1].world)
    IN  [stop   |-> res.stop,
         server |-> Some([server[1] EXCEPT !.time = res.time,
                                           !.world = res.world])]

\* The bounded wait on the interruption channel that opens a cycle: an
\* interruption, a timeout, or the channel found disconnected (all senders
\* gone and nothing queued), which stops the loop.
RunWait ==
    /\ srvPc = "wait"
    /\ IF updQueue # <<>>
       THEN /\ server' = Updated(Head(updQueue)).server
            /\ stop' = Updated(Head(updQueue)).stop
            /\ applied' = Append(applied, Head(updQueue))
            /\ updQueue' = Tail(updQueue)
            /\ srvPc' = "drain"
            /\ sentAtWake' = Len(accepted)
            /\ UNCHANGED runReturned
       ELSE IF senders = {}
       THEN /\ srvPc' = "ended"
            /\ runReturned' = TRUE
            /\ UNCHANGED <<server, stop, applied, updQueue, sentAtWake>>
       ELSE /\ stop' = FALSE
            /\ srvPc' = "drain"
            /\ sentAtWake' = Len(accepted)
            /\ UNCHANGED <<server, applied, updQueue, runReturned>>
    /\ UNCHANGED <<panicking, watcher, reports, locals, builder, afterDrop,
                   handoff, handoffSender, handoffReceiver, updReceiver,
                   senders, cloned, accepted, lastSend, callerVars, clockVars>>

\* The drain: one non-blocking receive. An interruption is updated with and
\* the drain goes on; an empty channel ends the drain, and the loop stops
\* when an interruption of this cycle asked for it or the channel is
\* disconnected.
RunDrain ==
    /\ srvPc = "drain"
    /\ IF updQueue # <<>>
       THEN /\ server' = Updated(Head(updQueue)).server
            /\ stop' = (stop \/ Updated(Head(updQueue)).stop)
            /\ applied' = Append(applied, Head(updQueue))
            /\ updQueue' = Tail(updQueue)
            /\ UNCHANGED <<srvPc, runReturned, sentAtWake>>
       ELSE /\ srvPc' = IF stop \/ senders = {} THEN "ended" ELSE "events"
            /\ runReturned' = (stop \/ senders = {})
            /\ sentAtWake' = IF stop \/ senders = {} THEN 0 ELSE sentAtWake
            /\ UNCHANGED <<server, stop, applied, updQueue>>
    /\ UNCHANGED <<panicking, watcher, reports, locals, builder, afterDrop,
                   handoff, handoffSender, handoffReceiver, updReceiver,
                   senders, cloned, accepted, lastSend, callerVars, clockVars>>

\* The rest of a cycle: in-game time advances, the due events run and
\* finished_cycle is called.
RunEvents ==
    /\ srvPc = "events"
    /\ srvPc' = "wait"
    /\ afterDrop' = IF senders = {} THEN afterDrop + 1 ELSE afterDrop
    /\ sentAtWake' = 0
    /\ UNCHANGED <<panicking, watcher, reports, server, locals, stop,
                   builder, applied, runReturned,
                   channelVars, callerVars, clockVars>>

\* A panic inside run: in an update or in an event.
RunPanic ==
    /\ srvPc \in {"drain", "events"}
    /\ panicking' = TRUE
    /\ srvPc' = "drop_server"
    /\ sentAtWake' = 0
    /\ UNCHANGED <<watcher, reports, server, locals, stop, builder, applied,
                   runReturned, afterDrop, channelVars, callerVars, clockVars>>

\* ------------------------------------------- the end of the closure

ThreadSetNatural_Forgets ==
    /\ srvPc = "ended"
    /\ srvPc' = "drop_server"
    /\ UNCHANGED <<panicking, watcher, reports, server, locals, stop,
                   builder, applied, sentAtWake, runReturned, afterDrop,
                   channelVars, callerVars, clockVars>>

\* Line 235: announce_shutdown.natural = true, after run has returned.
ThreadSetNatural ==
    /\ srvPc = "ended"
    /\ watcher' = Some(TRUE)
    /\ srvPc' = "drop_server"
    /\ UNCHANGED <<panicking, reports, server, locals, stop, builder, applied,
                   sentAtWake, runReturned, afterDrop,
                   channelVars, callerVars, clockVars>>

ThreadDropServer_LeaksReceiver ==
    /\ srvPc = "drop_server"
    /\ server' = None
    /\ srvPc' = "drop_watcher"
    /\ UNCHANGED <<panicking, watcher, reports, locals, stop, builder,
                   applied, sentAtWake, runReturned, afterDrop,
                   channelVars, callerVars, clockVars>>

\* Line 236, return or unwind: the closure's locals go in reverse order of
\* declaration, first the Server with the receiver it owns.
ThreadDropServer ==
    /\ srvPc = "drop_server"
    /\ server' = None
    /\ updReceiver' = FALSE
    /\ srvPc' = "drop_watcher"
    /\ UNCHANGED <<panicking, watcher, reports, locals, stop, builder,
                   applied, sentAtWake, runReturned, afterDrop,
                   handoff, handoffSender, handoffReceiver, updQueue, senders,
                   cloned, accepted, lastSend, callerVars, clockVars>>

\* ServerWatcher::drop, lines 200-208.
WatcherDrop(self) == IF self THEN "natural" ELSE "panicked"

\* Line 236, return or unwind: then announce_shutdown is dropped.
ThreadDropWatcher ==
    /\ srvPc = "drop_watcher"
    /\ reports' = Append(reports, WatcherDrop(watcher[1]))
    /\ watcher' = None
    /\ srvPc' = "drop_send"
    /\ UNCHANGED <<panicking, server, locals, stop, builder, applied,
                   sentAtWake, runReturned, afterDrop, channelVars, callerVars,
                   clockVars>>

\* Line 236: last the closure itself goes, with the `send` it captured.
ThreadDropSend ==
    /\ srvPc = "drop_send"
    /\ handoffSender' = FALSE
    /\ srvPc' = "exited"
    /\ UNCHANGED <<threadVars_NoPc, handoff, handoffReceiver, updQueue,
                   updReceiver, senders, cloned, accepted, lastSend,
                   callerVars, clockVars>>

\* ------------------------------------------------ a Simple driven directly

\* The wall clock moves on.
Tick(t) ==
    /\ InstLT(wall, t)
    /\ wall' = t
    /\ UNCHANGED <<serverVars, simpleVars, callVars, handleVars, inputVars>>

\* simple.start(Instant::now())
ClockStart ==
    /\ simple' = SimpleStart(simple, wall)
    /\ frozen' = None
    /\ UNCHANGED <<serverVars, wall, reading, created, callVars, handleVars,
                   inputVars>>

\* simple.stop(Instant::now())
ClockStop ==
    /\ simple' = SimpleStop(simple, wall)
    /\ frozen' = Some([at |-> wall, time |-> SimpleTime(simple, wall)])
    /\ UNCHANGED <<serverVars, wall, reading, created, callVars, handleVars,
                   inputVars>>

\* simple.time(t), for an instant no earlier than the clock's start
ClockRead(t) ==
    /\ IF simple.start_instant = None THEN TRUE
       ELSE InstLE(simple.start_instant[1], t)
    /\ reading' = Some([at |-> t, time |-> SimpleTime(simple, t)])
    /\ UNCHANGED <<serverVars, wall, simple, frozen, created, callVars,
                   handleVars, inputVars>>

\* ------------------------------------------ the caller's clock handle

\* A call on the clock start_server returned: the handle is left as the
\* method leaves it and the value returned is kept.
HandleCall(fn, res) ==
    /\ returned' = Some([returned[1] EXCEPT !.clock = res.self])
    /\ handleOut' = [fn |-> fn, out |-> res.out]
    /\ UNCHANGED <<threadVars, channelVars, callerPc, wall, simpleVars,
                   callVars, inputVars>>

\* clock.in_game(Instant::now())
HandleInGame ==
    /\ callerPc = "returned"
    /\ HandleCall("in_game", ClockInGame(returned[1].clock, wall))

\* clock.minimum_wait(now, until), now the in-game time of this instant
HandleMinimumWait(until) ==
    /\ callerPc = "returned"
    /\ HandleCall("minimum_wait",
                  ClockMinimumWait(returned[1].clock,
                                   SimpleTime(returned[1].clock, wall),
                                   until))

\* clock.finished_cycle(Instant::now(), in_game)
HandleFinishedCycle(in_game) ==
    /\ callerPc = "returned"
    /\ HandleCall("finished_cycle",
                  ClockFinishedCycle(returned[1].clock, wall, in_game))

\* clock.end_cycles()
HandleEndCycles ==
    /\ callerPc = "returned"
    /\ HandleCall("end_cycles", ClockEndCycles(returned[1].clock))

\* --------------------------------------------------- the client's Input

\* input.interpret(bin) for a button event of the window
ButtonEvent(button, state) ==
    LET bin == ButtonArgs(button, state)
        res == InputInterpret(input, bin)
    IN  /\ input' = res.self
        /\ lastUpdate' = Some([bin    |-> bin,
                               before |-> input.dirs,
                               out    |-> res.out])
        /\ pressed' = [pressed EXCEPT ![button] = Some(state = "Press")]
        /\ changes' = IF res.out.kind # "ChangeMovement" THEN changes
                       ELSE IF changes = <<>> THEN <<res.out.dirs>>
                       ELSE <<changes[Len(changes)], res.out.dirs>>
        /\ UNCHANGED <<serverVars, wall, simpleVars, callVars, handleVars>>

\* ---------------------------------------------------------- specifications

ThreadStep ==
    \/ ThreadWatcher
    \/ ThreadCreate
    \/ ThreadSend
    \/ RunWait
    \/ RunDrain
    \/ RunEvents
    \/ ThreadSetNatural
    \/ ThreadDropServer
    \/ ThreadDropWatcher
    \/ ThreadDropSend

ProducerStep ==
    \/ \E p \in Producers : \E m \in Sendable(p) : Send(p, m)
    \/ \E p, q \in Producers : CloneSender(p, q)
    \/ \E p \in Producers : DropSender(p)

\* The bootstrap and the runtime, a panic inside run left out.
LiveNext ==
    \/ StartServerCall
    \/ CallerRecv
    \/ ProducerStep
    \/ ThreadStep

Next ==
    \/ LiveNext
    \/ RunPanic

Spec == Init /\ [][Next]_vars

\* Both threads are scheduled: a step of either that stays possible is
\* taken. Run returns or goes on; it does not panic.
LiveSpec ==
    Init /\ [][LiveNext]_vars /\ WF_vars(ThreadStep) /\ WF_vars(CallerRecv)

\* The caller keeps the sender and the clock handle: it calls the handle as
\* the wall clock moves and the runtime cycles, and may drop the sender.
HandleNext ==
    \/ StartServerCall
    \/ CallerRecv
    \/ ThreadStep
    \/ \E p \in Producers : DropSender(p)
    \/ \E t \in Instants : Tick(t)
    \/ HandleInGame
    \/ \E until \in GameTimes : HandleMinimumWait(until)
    \/ \E t \in GameTimes : HandleFinishedCycle(t)
    \/ HandleEndCycles

HandleSpec == Init /\ [][HandleNext]_vars

InputNext == \E b \in Buttons, st \in ButtonStates : ButtonEvent(b, st)

InputSpec == Init /\ [][InputNext]_vars

ClockInit ==
    /\ ServerInit
    /\ wall = FirstInstant
    /\ simple \in {SimpleNew(t) : t \in StartTimes}
    /\ RestInit
    /\ intoMode = "floor"

ClockNext ==
    \/ \E t \in Instants : Tick(t)
    \/ ClockStart
    \/ ClockStop
    \/ \E t \in Instants : ClockRead(t)

ClockSpec == ClockInit /\ [][ClockNext]_vars

\* ------------------------------------- conversions and updates called alone

\* duration_in_game(duration), and the result taken back
CallDurationInGame(duration) ==
    /\ call' = [fn   |-> "duration_in_game",
                arg  |-> duration,
                out  |-> duration_in_game(duration),
                back |-> duration_real_time(duration_in_game(duration))]
    /\ UNCHANGED <<serverVars, wall, simpleVars, intoMode, handleVars,
                   inputVars>>

\* duration_real_time(duration), and the result taken back unless the
\* call panicked
CallDurationRealTime(duration) ==
    LET out == duration_real_time(duration)
    IN  /\ call' = [fn   |-> "duration_real_time",
                    arg  |-> duration,
                    out  |-> out,
                    back |-> IF out = DurationOverflow THEN None
                             ELSE Some(duration_in_game(out))]
        /\ UNCHANGED <<serverVars, wall, simpleVars, intoMode, handleVars,
                       inputVars>>

\* clock.minimum_wait(now, until) on a clock as create_server_local makes it
CallMinimumWait(now, until) ==
    LET clock == SimpleStart(SimpleNew(initial_time), wall)
    IN  /\ call' = [fn    |-> "minimum_wait",
                    now   |-> now,
                    until |-> until,
                    out   |-> ClockMinimumWait(clock, now, until).out]
        /\ UNCHANGED <<serverVars, wall, simpleVars, intoMode, handleVars,
                       inputVars>>

\* The worlds and interruptions drawn as inputs of update: every world over
\* one or both entities, every interruption; the PlayerUpdate may name an
\* entity the world does not hold.
Worlds ==
    UNION {{[matter |-> m] : m \in [ids -> {"idle"} \cup Controls]} :
           ids \in (SUBSET EntityIds) \ {{}}}

Interruptions ==
    {PlayerUpdate(id, c, "p1", 1) : id \in EntityIds, c \in Controls}
        \cup {KillServer("p1", 1)}

\* interruption.update(&mut time, &mut world)
CallUpdate(m, time, world) ==
    /\ call' = [fn    |-> "update",
                arg   |-> m,
                time  |-> time,
                world |-> world,
                out   |-> InterruptionUpdate(m, time, world)]
    /\ UNCHANGED <<serverVars, wall, simpleVars, intoMode, handleVars,
                   inputVars>>

CallInit ==
    /\ ServerInit
    /\ wall = FirstInstant
    /\ simple = SimpleNew(initial_time)
    /\ RestInit
    /\ intoMode \in {"floor", "trunc"}

CallNext ==
    \/ \E d \in WallDurations : CallDurationInGame(d)
    \/ \E d \in GameDurations : CallDurationRealTime(d)
    \/ \E now, until \in GameTimes : CallMinimumWait(now, until)
    \/ \E m \in Interruptions, t \in GameTimes, w \in Worlds :
            CallUpdate(m, EventQueueNew(t), w)

CallSpec == CallInit /\ [][CallNext]_vars

\* -------------------------------------------------------------- properties

\* C1: start_server has returned only when, on the spawned thread, the
\* builder has finished, the Server has been made and the pair (clock, r)
\* has been sent; the result returned is the value the builder returned,
\* and the clock returned is the started clock the Server was made with.
C1_ReturnsAfterHandoff ==
    callerPc = "returned" =>
        /\ builder.thread = "server"
        /\ builder.outcome \in EntityIds
        /\ srvPc \notin {"unspawned", "watch", "create", "send"}
        /\ locals = None
        /\ handoff = <<>>
        /\ returned # None
        /\ returned[1].r = builder.outcome
        /\ returned[1].clock = SimpleStart(SimpleNew(initial_time), wall)
        /\ server # None => server[1].clock = returned[1].clock

C1_Witness ==
    /\ callerPc = "returned"
    /\ returned[1].r = "e2"
    /\ server # None

NothingHandedOff ==
    /\ callerPc \in {"recv", "panicked"}
    /\ returned = None
    /\ handoff = <<>>
    /\ server = None
    /\ callerPc = "panicked" => ~handoffSender /\ senders = {}
    /\ srvPc = "exited" => ~handoffSender

\* C3: once the builder has panicked start_server never returns a triple:
\* nothing is sent on the handoff channel, the handoff sender is dropped,
\* the caller's receive fails and the caller panics.
C3_BuilderPanicPropagates ==
    /\ [](builder.outcome = "panic" => NothingHandedOff)
    /\ (builder.outcome = "panic") ~> (callerPc = "panicked" /\ ~handoffSender)

C3_Witness ==
    /\ builder.outcome = "panic"
    /\ callerPc = "panicked"
    /\ srvPc = "exited"

\* C4: the watcher reports once, when the thread leaves, and never before;
\* it reports natural exactly when run returned, and panicked when the
\* thread is unwinding from a panic in the builder, the send or run.
C4_WatcherReportsOnce ==
    /\ Len(reports) <= 1
    /\ (srvPc \in {"drop_send", "exited"}) <=> (Len(reports) = 1)
    /\ reports # <<>> => ((reports[1] = "natural") <=> runReturned)
    /\ reports # <<>> => ((reports[1] = "panicked") <=> panicking)
    /\ panicking => ~runReturned

C4_Witness ==
    /\ srvPc = "exited"
    /\ reports = <<"panicked">>
    /\ builder.outcome \in EntityIds
    /\ applied # <<>>

\* A KillServer has been sent and the send returned Ok.
KillAccepted == \E i \in 1..Len(accepted) : accepted[i].kind = "KillServer"

\* The thread has left by returning from run, and the watcher said so.
NaturalExit ==
    /\ runReturned
    /\ srvPc = "exited"
    /\ reports = <<"natural">>

\* C5: after the handoff, a KillServer sent on the returned sender leads to
\* the run loop stopping, the thread exiting and the watcher reporting a
\* natural exit.
C5_KillLeadsToNaturalExit == KillAccepted ~> NaturalExit

C5_Witness ==
    /\ KillAccepted
    /\ NaturalExit
    /\ senders # {}
    /\ applied # <<>> /\ applied[Len(applied)].kind = "KillServer"

\* Every sender handle has been dropped and no KillServer was ever sent.
NoSenders ==
    /\ callerPc = "returned"
    /\ senders = {}
    /\ ~KillAccepted

\* C6: once every sender handle is dropped with no KillServer sent, the
\* run loop begins at most one more event phase, and the thread exits with
\* the watcher reporting a natural exit.
C6_ImplicitShutdown ==
    /\ [](NoSenders => afterDrop <= 1)
    /\ NoSenders ~> NaturalExit

C6_Witness ==
    /\ NoSenders
    /\ NaturalExit
    /\ afterDrop = 1
    /\ applied # <<>>

\* The control the last PlayerUpdate of log gave, "idle" with none.
RECURSIVE LastControl(_)
LastControl(log) ==
    IF log = <<>> THEN "idle"
    ELSE IF log[Len(log)].kind = "PlayerUpdate" THEN log[Len(log)].control
    ELSE LastControl(SubSeq(log, 1, Len(log) - 1))

\* C7: the interruptions the runtime has updated with are the first of
\* those sent, in the order sent, none twice and none skipped; a producer's
\* own come in its send order; the world holds their effect; and the
\* events of a cycle run only after every interruption sent before the
\* cycle's wake-up has been updated with.
C7_InterruptionsInSendOrder ==
    /\ accepted = applied \o updQueue
    /\ \A i, j \in 1..Len(applied) :
          (i < j /\ applied[i].from = applied[j].from)
              => applied[i].seq < applied[j].seq
    /\ server # None =>
          \A e \in DOMAIN server[1].world.matter :
              server[1].world.matter[e] = LastControl(applied)
    /\ srvPc = "events" => Len(applied) >= sentAtWake

C7_Witness ==
    /\ srvPc = "events"
    /\ sentAtWake = 2
    /\ Len(applied) = 2
    /\ applied[1].from = applied[2].from
    /\ applied[1].kind = "PlayerUpdate" /\ applied[2].kind = "PlayerUpdate"
    /\ applied[1].control # applied[2].control

\* The place of the first KillServer among the interruptions sent.
FirstKill ==
    CHOOSE i \in 1..Len(accepted) :
        /\ accepted[i].kind = "KillServer"
        /\ \A j \in 1..(i - 1) : accepted[j].kind # "KillServer"

\* C8: when the run loop has taken a KillServer, every PlayerUpdate sent
\* before it, by whichever producer, has been updated with, in the order
\* sent, and the world holds their effect: the loop is still running when
\* the last of them is applied.
C8_UpdatesAppliedBeforeKill ==
    (\E i \in 1..Len(applied) : applied[i].kind = "KillServer") =>
        /\ Len(applied) >= FirstKill
        /\ \A j \in 1..FirstKill : applied[j] = accepted[j]
        /\ \A j \in 1..(FirstKill - 1) : applied[j].kind = "PlayerUpdate"
        /\ server # None =>
              \A e \in DOMAIN server[1].world.matter :
                  server[1].world.matter[e] = LastControl(applied)
        /\ runReturned => stop

C8_Witness ==
    /\ NaturalExit
    /\ Len(applied) = 3
    /\ applied[3].kind = "KillServer"
    /\ applied[1].from = applied[2].from
    /\ applied[3].from # applied[1].from
    /\ applied[1].kind = "PlayerUpdate" /\ applied[2].kind = "PlayerUpdate"
    /\ applied[1].control # applied[2].control

\* Producer p's last send is among the interruptions accepted.
LastSendAccepted(p) ==
    \E i \in 1..Len(accepted) :
        accepted[i].from = p /\ accepted[i].seq = lastSend[p][1].seq

\* C9: a send made while the spawned thread holds the receiver returns Ok
\* and queues the interruption; a send made once the thread has ended, by
\* return or by panic, returns Err and queues nothing; the receiver is gone
\* when the thread is.
C9_SendOkWhileReceiverHeld ==
    /\ ThreadGone => ~updReceiver
    /\ ThreadHoldsReceiver => updReceiver
    /\ \A p \in Producers : lastSend[p] # None =>
          /\ lastSend[p][1].held => lastSend[p][1].ok
          /\ lastSend[p][1].gone => ~lastSend[p][1].ok
          /\ lastSend[p][1].ok <=> LastSendAccepted(p)

C9_Witness ==
    /\ reports = <<"natural">>
    /\ lastSend["p1"] # None /\ lastSend["p1"][1].gone /\ ~lastSend["p1"][1].ok
    /\ lastSend["p1"][1].seq = 2
    /\ Len(accepted) = 1 /\ accepted[1].from = "p1"

\* C10: a clock stopped at an instant, and not started since, reads its
\* frozen in-game time at every later instant: time(t1) = time(t2) for all
\* instants t1 < t2 from the stop on.
C10_StoppedClockIsFrozen ==
    frozen # None =>
        \A t1, t2 \in Instants :
            (InstLE(frozen[1].at, t1) /\ InstLT(t1, t2)) =>
                /\ SimpleTime(simple, t1) = SimpleTime(simple, t2)
                /\ SimpleTime(simple, t1) = frozen[1].time

C10_Witness ==
    /\ frozen # None
    /\ InstLT(frozen[1].at, wall)
    /\ frozen[1].time.f = 1
    /\ reading # None
    /\ reading[1].at = wall
    /\ reading[1].time = frozen[1].time

\* C11: while a clock started at wall instant t0 has not been stopped or
\* started again, the in-game time it reports at any later instant t1 is
\* ahead of the time it reports at t0 by exactly
\* duration_in_game(t1 - t0).
C11_RunningClockAdvances ==
    simple.start_instant # None =>
        LET t0 == simple.start_instant[1]
        IN  \A t1 \in Instants :
                InstLT(t0, t1) =>
                    UnitsSub(SimpleTime(simple, t1), SimpleTime(simple, t0))
                        = duration_in_game(DurationSince(t1, t0))

C11_Witness ==
    /\ simple.start_instant # None
    /\ InstLT(FirstInstant, simple.start_instant[1])
    /\ simple.last_time # initial_time
    /\ reading # None
    /\ InstLT(simple.start_instant[1], reading[1].at)
    /\ reading[1].time = SimpleTime(simple, reading[1].at)
    /\ reading[1].time.f # simple.last_time.f

\* C12: Clock::minimum_wait(now, until) returns the zero wall duration for
\* every pair of in-game times with until <= now, until strictly before now
\* included.
C12_ZeroWaitWhenNotAfter ==
    (call.fn = "minimum_wait" /\ UnitsLE(call.until, call.now)) =>
        call.out = WallDuration(0, 0)

\* Wall durations no more than one nanosecond apart.
WallWithinOne(a, b) ==
    /\ DOMAIN a = {"secs", "nanos"}
    /\ DOMAIN b = {"secs", "nanos"}
    /\ \/ a.secs = b.secs /\ a.nanos - b.nanos \in {0 - 1, 0, 1}
       \/ a.secs = b.secs + 1 /\ a.nanos = 0 /\ b.nanos = NANOS_PER_SEC - 1
       \/ b.secs = a.secs + 1 /\ b.nanos = 0 /\ a.nanos = NANOS_PER_SEC - 1

\* In-game durations no more than one sub-unit apart.
UnitsWithinOne(a, b) ==
    \/ a.s = b.s /\ a.f - b.f \in {0 - 1, 0, 1}
    \/ a.s = b.s + 1 /\ a.f = 0 /\ b.f = NANOS_PER_SEC - 1
    \/ b.s = a.s + 1 /\ b.f = 0 /\ a.f = NANOS_PER_SEC - 1

C14_UpdateEffects ==
    call.fn = "update" =>
        /\ call.arg.kind = "KillServer" =>
                /\ call.out.stop = TRUE
                /\ call.out.time = call.time
                /\ call.out.world = call.world
        /\ call.arg.kind = "PlayerUpdate" =>
                /\ call.out.stop = FALSE
                /\ DOMAIN call.out.world.matter = DOMAIN call.world.matter
                /\ \A e \in DOMAIN call.world.matter :
                        call.out.world.matter[e] =
                            IF e = call.arg.id THEN call.arg.control
                            ELSE call.world.matter[e]

C14_Witness ==
    /\ call.fn = "update"
    /\ call.arg.kind = "PlayerUpdate"
    /\ DOMAIN call.world.matter = EntityIds
    /\ call.world.matter[call.arg.id] # call.arg.control
    /\ call.out.world.matter[call.arg.id] = call.arg.control
    /\ call.out.world # call.world
    /\ call.out.stop = FALSE

\* C15: no call on the clock handle start_server returned (in_game,
\* minimum_wait, finished_cycle, end_cycles) changes the start_instant or
\* last_time the handle holds, and none changes the clock the Server owns:
\* the two are clones of one value and stay equal to it.
C15_HandleCallsChangeNoClock ==
    /\ []((returned # None /\ server # None) =>
            returned[1].clock = server[1].clock)
    /\ [][/\ (returned # None /\ returned' # None) =>
                returned'[1].clock = returned[1].clock
          /\ (server # None /\ server' # None) =>
                server'[1].clock = server[1].clock]_vars

C15_Witness ==
    /\ handleOut.fn = "in_game"
    /\ returned # None
    /\ server # None
    /\ returned[1].clock = server[1].clock
    /\ returned[1].clock.start_instant # None
    /\ InstLT(returned[1].clock.start_instant[1], wall)
    /\ handleOut.out = SimpleTime(returned[1].clock, wall)
    /\ handleOut.out # initial_time

\* C16: for a clock made by Simple::new(t_init) and then started and
\* stopped at the instants of a wall clock that never goes back, the time
\* read at the current instant never goes down from one step to the next
\* and is never below t_init; start(now) on a running clock leaves
\* time(now) as it was; and the clock create_server_local makes, read at
\* once or later, reports no less than the initial time.
C16_ReadingsNeverGoBack ==
    /\ [](UnitsLE(created, SimpleTime(simple, wall)))
    /\ [](\A t \in Instants :
            InstLE(wall, t) =>
                UnitsLE(initial_time,
                        ClockInGame(SimpleStart(SimpleNew(initial_time), wall),
                                    t).out))
    /\ [][/\ UnitsLE(SimpleTime(simple, wall), SimpleTime(simple', wall'))
          /\ (simple.start_instant # None
                /\ simple' = SimpleStart(simple, wall)) =>
                    SimpleTime(simple', wall) = SimpleTime(simple, wall)]_vars

C16_Witness ==
    /\ simple.start_instant # None
    /\ InstLT(FirstInstant, simple.start_instant[1])
    /\ InstLT(simple.start_instant[1], wall)
    /\ simple.last_time # created
    /\ created # initial_time
    /\ reading # None
    /\ reading[1].at = wall
    /\ reading[1].time = SimpleTime(simple, wall)
    /\ UnitsLE(created, reading[1].time)

\* The messages ever sent on the handoff channel: those in flight and the
\* one the caller has received.
HandoffMessages == Len(handoff) + (IF returned = None THEN 0 ELSE 1)

\* C17: the handoff send cannot fail. While the spawned thread is at the
\* send the caller is blocked in recv with the receiver alive and nothing
\* has been sent; the caller holds the receiver for as long as it waits;
\* no more than one message is ever on the channel or received; and once
\* the thread is past the send (server.run() begun or over) exactly one
\* message has been sent.
C17_HandoffSendCannotFail ==
    /\ srvPc = "send" =>
            /\ handoffReceiver
            /\ callerPc = "recv"
            /\ HandoffMessages = 0
    /\ callerPc = "recv" => handoffReceiver
    /\ HandoffMessages <= 1
    /\ (builder.outcome \in EntityIds
            /\ srvPc \notin {"unspawned", "watch", "create", "send"}) =>
            HandoffMessages = 1
    /\ srvPc \in {"wait", "drain", "events", "ended"} =>
            /\ builder.outcome \in EntityIds
            /\ HandoffMessages = 1

C17_Witness ==
    /\ srvPc = "events"
    /\ callerPc = "recv"
    /\ handoffReceiver
    /\ Len(handoff) = 1
    /\ returned = None
    /\ ~panicking

\* The direction a button moves in: W up, S down, A left, D right.
ButtonDir(button) ==
    CASE button = "Keyboard(W)" -> Some("up")
      [] button = "Keyboard(S)" -> Some("down")
      [] button = "Keyboard(A)" -> Some("left")
      [] button = "Keyboard(D)" -> Some("right")
      [] OTHER -> None

\* C18: Input::interpret returns ChangeMovement exactly when the button is
\* one of the four movement buttons and its pressed state differs from the
\* state recorded for its direction; then that direction alone changes, to
\* the pressed state, and the dirs returned are the dirs then recorded.
\* Otherwise it returns Nop and the recorded dirs stay as they were.
C18_InterpretEffects ==
    lastUpdate # None =>
        LET u       == lastUpdate[1]
            dir     == ButtonDir(u.bin.button)
            isPress == u.bin.state = "Press"
            differs == IF dir = None THEN FALSE
                       ELSE u.before[dir[1]] # isPress
        IN  /\ input.move_controls = InputNew.move_controls
            /\ (u.out.kind = "ChangeMovement") <=> differs
            /\ differs =>
                    /\ input.dirs = [u.before EXCEPT ![dir[1]] = isPress]
                    /\ u.out = ChangeMovement(input.dirs)
            /\ ~differs =>
                    /\ u.out = Nop
                    /\ input.dirs = u.before

C18_Witness ==
    /\ lastUpdate # None
    /\ lastUpdate[1].bin = ButtonArgs("Keyboard(A)", "Release")
    /\ lastUpdate[1].before = DirPad(TRUE, FALSE, TRUE, FALSE)
    /\ lastUpdate[1].out = ChangeMovement(DirPad(TRUE, FALSE, FALSE, FALSE))
    /\ input.dirs = DirPad(TRUE, FALSE, FALSE, FALSE)

\* C19: after any sequence of button events from Input::new, the state
\* recorded for each direction is the pressed state of the latest event of
\* the button mapped to it, false when there has been none; and two
\* ChangeMovement updates emitted one after the other differ in exactly one
\* direction.
C19_DirsFollowLatestEvents ==
    /\ \A d \in DirSet :
            LET latest == pressed[InputNew.move_controls[d]]
            IN  input.dirs[d] = IF latest = None THEN FALSE ELSE latest[1]
    /\ Len(changes) = 2 =>
            Cardinality({d \in DirSet : changes[1][d] # changes[2][d]}) = 1

C19_Witness ==
    /\ Len(changes) = 2
    /\ changes[2] = input.dirs
    /\ input.dirs = DirPad(FALSE, TRUE, FALSE, TRUE)
    /\ pressed["Keyboard(W)"] = Some(FALSE)
    /\ pressed["Keyboard(A)"] = None
    /\ pressed["Keyboard(Q)"] = Some(TRUE)
    /\ lastUpdate # None
    /\ lastUpdate[1].out = Nop

====
